---------------------------- MODULE Spec2Model ----------------------------
(***************************************************************************)
(* Allow-list validation (brave_search::IsAllowedHost over kVettedHosts)   *)
(* and environment-scoped host resolution (brave_ads GetGeoUrlHost, known  *)
(* here through geo_url_host_unittest.cc).                                 *)
(*                                                                         *)
(* Strings whose bytes matter (host names, returned url hosts) are         *)
(* sequences of one-character strings, ordered by their ASCII codes as     *)
(* std::string_view orders them.                                           *)
(***************************************************************************)
EXTENDS Integers, Sequences, FiniteSets, TLC

VARIABLES
  environment_type,  \* GlobalState::GetInstance()->Flags().environment_type
  development_host,  \* the Development entry of the ServiceHostTable
  vetted_hosts,      \* the array kVettedHosts holds
  allowed_log,       \* the last IsAllowedHost calls: [url, result]
  host_log           \* the resolveHost calls since the flag was assigned

vars == <<environment_type, development_host, vetted_hosts, allowed_log, host_log>>

(***************************************************************************)
(* Bytes and std::string_view comparison                                   *)
(***************************************************************************)
Lower == <<"a","b","c","d","e","f","g","h","i","j","k","l","m",
           "n","o","p","q","r","s","t","u","v","w","x","y","z">>

Punct == <<"-", ".", "/">>

Chars == {Lower[i] : i \in 1..Len(Lower)} \cup {Punct[i] : i \in 1..Len(Punct)} \cup {":"}

\* The ASCII code of a character: '-' 45, '.' 46, '/' 47, ':' 58, 'a'..'z' 97..122.
Ord == [c \in Chars |->
          IF c = ":" THEN 58
          ELSE IF \E i \in 1..Len(Punct) : Punct[i] = c
               THEN 44 + (CHOOSE i \in 1..Len(Punct) : Punct[i] = c)
               ELSE 96 + (CHOOSE i \in 1..Len(Lower) : Lower[i] = c)]

Min(a, b) == IF a < b THEN a ELSE b

RECURSIVE CompareFrom(_, _, _, _)
\* char_traits::compare from byte i on, over the first n bytes of both: the
\* sign of the first difference, 0 when there is none.
CompareFrom(a, b, i, n) ==
  IF i > n THEN 0
  ELSE IF a[i] = b[i] THEN CompareFrom(a, b, i + 1, n)
  ELSE IF Ord[a[i]] < Ord[b[i]] THEN -1 ELSE 1

\* std::string_view operator<: the first differing byte decides, then the length.
Less(a, b) ==
  LET c == CompareFrom(a, b, 1, Min(Len(a), Len(b)))
  IN  IF c # 0 THEN c < 0 ELSE Len(a) < Len(b)

\* std::string_view::starts_with.
StartsWith(s, p) == Len(p) <= Len(s) /\ SubSeq(s, 1, Len(p)) = p

\* std::string_view::ends_with.
EndsWith(s, p) == Len(p) <= Len(s) /\ SubSeq(s, Len(s) - Len(p) + 1, Len(s)) = p

(***************************************************************************)
(* String literals of the sources, label by label                          *)
(***************************************************************************)
Dot == <<".">>
l_safesearch == <<"s","a","f","e","s","e","a","r","c","h">>
l_search == <<"s","e","a","r","c","h">>
l_search_dev_local == <<"s","e","a","r","c","h","-","d","e","v","-","l","o","c","a","l">>
l_brave == <<"b","r","a","v","e">>
l_bravesoftware == <<"b","r","a","v","e","s","o","f","t","w","a","r","e">>
l_software == <<"s","o","f","t","w","a","r","e">>
l_com == <<"c","o","m">>
l_co == <<"c","o">>
l_net == <<"n","e","t">>
l_evil == <<"e","v","i","l">>
l_attacker == <<"a","t","t","a","c","k","e","r">>
l_api == <<"a","p","i">>
l_geo == <<"g","e","o">>
l_ads == <<"a","d","s">>
l_dev == <<"d","e","v">>

RECURSIVE Dotted(_)
\* The labels joined by dots.
Dotted(labels) ==
  IF Len(labels) = 0 THEN <<>>
  ELSE IF Len(labels) = 1 THEN labels[1]
  ELSE labels[1] \o Dot \o Dotted(Tail(labels))

(***************************************************************************)
(* base::fixed_flat_set<std::string_view>                                  *)
(***************************************************************************)
\* base::internal::is_sorted_and_unique: each element is less than the next.
IsSortedAndUnique(data) ==
  \A i \in 1..(Len(data) - 1) : Less(data[i], data[i + 1])

\* base::MakeFixedFlatSet(base::sorted_unique, data): the array is taken as
\* it is written, it is not sorted again.
MakeFixedFlatSet(data) == data

RECURSIVE LowerBound(_, _, _, _)
\* std::lower_bound over body[first .. first + count - 1]: the first position
\* whose element is not less than key, found by halving.
LowerBound(body, first, count, key) ==
  IF count <= 0 THEN first
  ELSE LET step == count \div 2
           it == first + step
       IN  IF Less(body[it], key)
           THEN LowerBound(body, it + 1, count - (step + 1), key)
           ELSE LowerBound(body, first, step, key)

\* flat_tree::contains: lower != end() && !comp(key, *lower).
Contains(body, key) ==
  LET lower == LowerBound(body, 1, Len(body), key)
  IN  lower <= Len(body) /\ ~Less(key, body[lower])

(***************************************************************************)
(* brave_search_utils.cc                                                   *)
(***************************************************************************)
kVettedHostsLiterals ==
  << Dotted(<<l_safesearch, l_brave, l_com>>),
     Dotted(<<l_safesearch, l_brave, l_software>>),
     Dotted(<<l_safesearch, l_bravesoftware, l_com>>),
     Dotted(<<l_search_dev_local, l_brave, l_com>>),
     Dotted(<<l_search, l_brave, l_com>>),
     Dotted(<<l_search, l_brave, l_software>>),
     Dotted(<<l_search, l_bravesoftware, l_com>>) >>

\* The same hosts in the order the interface documentation lists them.
kVettedHosts_Unsorted ==
  MakeFixedFlatSet(
    << Dotted(<<l_search, l_brave, l_com>>),
       Dotted(<<l_search, l_brave, l_software>>),
       Dotted(<<l_search, l_bravesoftware, l_com>>),
       Dotted(<<l_safesearch, l_brave, l_com>>),
       Dotted(<<l_safesearch, l_brave, l_software>>),
       Dotted(<<l_safesearch, l_bravesoftware, l_com>>),
       Dotted(<<l_search_dev_local, l_brave, l_com>>) >>)

kVettedHosts == MakeFixedFlatSet(kVettedHostsLiterals)

kHttpsScheme == "https"

\* GURL::SchemeIs: the canonical (lower-case) scheme equals the given one.
SchemeIs(url, lower_ascii_scheme) == url.scheme = lower_ascii_scheme

\* GURL::host_piece: the host component alone.
host_piece(url) == url.host

\* As IsAllowedHost, but a subdomain of a vetted host passes (GURL::DomainIs).
IsAllowedHost_Subdomains(url) ==
  IF ~url.is_valid \/ ~SchemeIs(url, kHttpsScheme)
  THEN FALSE
  ELSE \/ Contains(vetted_hosts, host_piece(url))
       \/ \E i \in 1..Len(vetted_hosts) :
            EndsWith(host_piece(url), Dot \o vetted_hosts[i])

\* As IsAllowedHost, but with GURL::SchemeIsHTTPOrHTTPS.
IsAllowedHost_HttpOrHttps(url) ==
  IF ~url.is_valid \/ ~(SchemeIs(url, "http") \/ SchemeIs(url, kHttpsScheme))
  THEN FALSE
  ELSE Contains(vetted_hosts, host_piece(url))

\* As IsAllowedHost, without the is_valid() test.
IsAllowedHost_NoValidityCheck(url) ==
  IF ~SchemeIs(url, kHttpsScheme)
  THEN FALSE
  ELSE Contains(vetted_hosts, host_piece(url))

\* As IsAllowedHost, but only the bare origin of a vetted host passes.
IsAllowedHost_BareOrigin(url) ==
  IF ~url.is_valid \/ ~SchemeIs(url, kHttpsScheme)
  THEN FALSE
  ELSE /\ Contains(vetted_hosts, host_piece(url))
       /\ url.port = "" /\ url.path = "/" /\ url.query = "" /\ url.ref = ""

IsAllowedHost(url) ==
  IF ~url.is_valid \/ ~SchemeIs(url, kHttpsScheme)
  THEN FALSE
  ELSE Contains(vetted_hosts, host_piece(url))

(***************************************************************************)
(* The GURLs handed to IsAllowedHost                                       *)
(***************************************************************************)
host_evil == Dotted(<<l_search, l_brave, l_com, l_evil, l_com>>)
host_attacker == Dotted(<<l_search, l_brave, l_com, l_attacker, l_net>>)
host_api == Dotted(<<l_api, l_search, l_brave, l_com>>)
host_parent == Dotted(<<l_brave, l_com>>)
host_truncated == Dotted(<<l_search, l_brave, l_co>>)
host_empty == <<>>

NearMissHosts ==
  {host_evil, host_attacker, host_api, host_parent, host_truncated, host_empty}

VettedHostValues == {kVettedHostsLiterals[i] : i \in 1..Len(kVettedHostsLiterals)}

Hosts == VettedHostValues \cup NearMissHosts

\* Port, path, query and ref of a url.
Rests ==
  << [port |-> "", path |-> "/", query |-> "", ref |-> ""],
     [port |-> "", path |-> "/search", query |-> "q=x", ref |-> ""],
     [port |-> "8443", path |-> "/", query |-> "", ref |-> "top"],
     [port |-> "", path |-> "/images", query |-> "", ref |-> "results"] >>

NumRests == 3

GURL(valid, scheme, host, r) ==
  [is_valid |-> valid, scheme |-> scheme, host |-> host,
   port |-> Rests[r].port, path |-> Rests[r].path,
   query |-> Rests[r].query, ref |-> Rests[r].ref]

\* Hosts also tried with a port, a path, a query and a ref.
PairHosts == {kVettedHostsLiterals[5], host_evil}

\* Hosts also tried with the http scheme.
HttpHosts ==
  {kVettedHostsLiterals[1], kVettedHostsLiterals[4], kVettedHostsLiterals[5], host_evil}

Urls ==
  {GURL(TRUE, "https", h, 1) : h \in Hosts}
  \cup {GURL(TRUE, "https", h, r) : h \in PairHosts, r \in 2..NumRests}
  \cup {GURL(TRUE, "http", h, 1) : h \in HttpHosts}
  \cup {GURL(TRUE, "ftp", kVettedHostsLiterals[5], 1)}
  \cup {GURL(FALSE, "https", h, 1) : h \in {kVettedHostsLiterals[5], host_empty}}
  \cup {GURL(FALSE, "", host_empty, 1)}

(***************************************************************************)
(* geo_url_host_unittest.cc and the resolver it exercises                  *)
(***************************************************************************)
kUninitialized == "kUninitialized"
kProduction == "kProduction"
kStaging == "kStaging"
kDevelopment == "kDevelopment"

\* mojom::EnvironmentType.
EnvironmentType == {kProduction, kStaging, kDevelopment}

HttpsPrefix == <<"h","t","t","p","s",":","/","/">>
HttpPrefix == <<"h","t","t","p",":","/","/">>

\* The staging host where the production host belongs.
kProductionUrlHost_Staging ==
  HttpsPrefix \o Dotted(<<l_geo, l_ads, l_bravesoftware, l_com>>)

\* The production host over plain http.
kProductionUrlHost_Http == HttpPrefix \o Dotted(<<l_geo, l_ads, l_brave, l_com>>)

\* "https://geo.ads.brave.com"
kProductionUrlHost == HttpsPrefix \o Dotted(<<l_geo, l_ads, l_brave, l_com>>)

\* The production host where the staging host belongs.
kStagingUrlHost_Production == HttpsPrefix \o Dotted(<<l_geo, l_ads, l_brave, l_com>>)

\* "https://geo.ads.bravesoftware.com"
kStagingUrlHost == HttpsPrefix \o Dotted(<<l_geo, l_ads, l_bravesoftware, l_com>>)

\* A table entry: a non-empty host string with the https:// scheme.
IsUrlHost(h) == Len(h) > 0 /\ StartsWith(h, HttpsPrefix)

\* The strings tried as the table's Development entry, which no source names.
DevelopmentHostCandidates ==
  { <<>>,
    HttpPrefix \o Dotted(<<l_geo, l_ads, l_brave, l_software>>),
    kProductionUrlHost,
    kStagingUrlHost,
    HttpsPrefix \o Dotted(<<l_geo, l_ads, l_brave, l_software>>),
    HttpsPrefix \o Dotted(<<l_geo, l_ads, l_dev, l_brave, l_com>>) }

\* The Development entry is a url host of its own.
IsDevelopmentEntry(h) ==
  IsUrlHost(h) /\ h # kProductionUrlHost /\ h # kStagingUrlHost

kGeoAdsHost == "geo-ads-host"

\* Service identifiers asked for; only kGeoAdsHost is registered.
ServiceIds == {kGeoAdsHost, "unregistered-host"}

\* ServiceHostTable: service identifier -> EnvironmentType -> url host.
ServiceHostTable ==
  [s \in {kGeoAdsHost} |->
     [e \in EnvironmentType |->
        IF e = kProduction THEN kProductionUrlHost
        ELSE IF e = kStaging THEN kStagingUrlHost
        ELSE development_host]]

ConfigurationError == [kind |-> "ConfigurationError", host |-> <<>>]

UrlHost(h) == [kind |-> "host", host |-> h]

\* The flag has been assigned one of the EnvironmentType values.
IsSet(env) == env \in EnvironmentType

\* The table has a row for the service identifier.
IsRegistered(serviceId) == serviceId \in DOMAIN ServiceHostTable

\* As ResolveHostIn, but an unset flag counts as Production.
ResolveHostIn_DefaultProduction(env, serviceId) ==
  IF ~IsRegistered(serviceId) THEN ConfigurationError
  ELSE IF ~IsSet(env) THEN UrlHost(ServiceHostTable[serviceId][kProduction])
  ELSE UrlHost(ServiceHostTable[serviceId][env])

\* As ResolveHostIn, but an unknown service identifier gets the geo row.
ResolveHostIn_FallbackGeo(env, serviceId) ==
  IF ~IsSet(env) THEN ConfigurationError
  ELSE IF ~IsRegistered(serviceId) THEN UrlHost(ServiceHostTable[kGeoAdsHost][env])
  ELSE UrlHost(ServiceHostTable[serviceId][env])

\* resolveHost with the flag holding env: reading the flag before it is set,
\* or asking for a service the table has no row for, is a ConfigurationError.
ResolveHostIn(env, serviceId) ==
  IF ~IsSet(env) THEN ConfigurationError
  ELSE IF ~IsRegistered(serviceId) THEN ConfigurationError
  ELSE UrlHost(ServiceHostTable[serviceId][env])

\* resolveHost(serviceId): reads the process-wide flag.
ResolveHost(serviceId) == ResolveHostIn(environment_type, serviceId)

GetGeoUrlHost == ResolveHost(kGeoAdsHost)

(***************************************************************************)
(* State machine                                                           *)
(***************************************************************************)
MaxRepeat == 2

\* The last n elements of a log.
KeepLast(log, n) ==
  IF Len(log) <= n THEN log ELSE SubSeq(log, Len(log) - n + 1, Len(log))

Init ==
  /\ environment_type = kUninitialized
  /\ development_host \in {h \in DevelopmentHostCandidates : IsDevelopmentEntry(h)}
  /\ vetted_hosts = kVettedHosts
  /\ allowed_log = <<>>
  /\ host_log = <<>>

\* GlobalState::GetInstance()->Flags().environment_type = e.  host_log holds
\* the calls made since the flag was last assigned.
SetEnvironmentType(e) ==
  /\ environment_type' = e
  /\ host_log' = <<>>
  /\ UNCHANGED <<development_host, vetted_hosts, allowed_log>>

\* One more call in host_log, which keeps the last MaxRepeat.
Logged(serviceId, returned) ==
  KeepLast(Append(host_log, [serviceId |-> serviceId, returned |-> returned]),
           MaxRepeat)

\* GetGeoUrlHost(), as both tests call it.
GetGeoUrlHostCall ==
  /\ host_log' = Logged(kGeoAdsHost, GetGeoUrlHost)
  /\ UNCHANGED <<environment_type, development_host, vetted_hosts, allowed_log>>

\* resolveHost(serviceId) for any service identifier.
ResolveHostCall(serviceId) ==
  /\ host_log' = Logged(serviceId, ResolveHost(serviceId))
  /\ UNCHANGED <<environment_type, development_host, vetted_hosts, allowed_log>>

\* brave_search::IsAllowedHost(url); allowed_log holds the last two calls.
IsAllowedHostCall(url) ==
  /\ allowed_log' = KeepLast(Append(allowed_log,
                        [url |-> url, result |-> IsAllowedHost(url)]), 2)
  /\ UNCHANGED <<environment_type, development_host, vetted_hosts, host_log>>

Next ==
  \/ \E e \in EnvironmentType : SetEnvironmentType(e)
  \/ GetGeoUrlHostCall
  \/ \E s \in ServiceIds : ResolveHostCall(s)
  \/ \E u \in Urls : IsAllowedHostCall(u)

Spec == Init /\ [][Next]_vars

(***************************************************************************)
(* Properties                                                              *)
(***************************************************************************)
\* The vetted hosts as the interface documentation lists them, byte by byte.
ListedHosts ==
  { <<"s","e","a","r","c","h",".","b","r","a","v","e",".","c","o","m">>,
    <<"s","e","a","r","c","h",".","b","r","a","v","e",".",
      "s","o","f","t","w","a","r","e">>,
    <<"s","e","a","r","c","h",".","b","r","a","v","e",
      "s","o","f","t","w","a","r","e",".","c","o","m">>,
    <<"s","a","f","e","s","e","a","r","c","h",".","b","r","a","v","e",".","c","o","m">>,
    <<"s","a","f","e","s","e","a","r","c","h",".","b","r","a","v","e",".",
      "s","o","f","t","w","a","r","e">>,
    <<"s","a","f","e","s","e","a","r","c","h",".","b","r","a","v","e",
      "s","o","f","t","w","a","r","e",".","c","o","m">>,
    <<"s","e","a","r","c","h","-","d","e","v","-","l","o","c","a","l",".",
      "b","r","a","v","e",".","c","o","m">> }

\* "https://geo.ads.brave.com" and "https://geo.ads.bravesoftware.com".
ProductionHostString ==
  <<"h","t","t","p","s",":","/","/","g","e","o",".","a","d","s",".",
    "b","r","a","v","e",".","c","o","m">>

StagingHostString ==
  <<"h","t","t","p","s",":","/","/","g","e","o",".","a","d","s",".",
    "b","r","a","v","e","s","o","f","t","w","a","r","e",".","c","o","m">>

AllowedCalls == {allowed_log[i] : i \in 1..Len(allowed_log)}

HostCalls == {host_log[i] : i \in 1..Len(host_log)}

GeoCalls == {c \in HostCalls : c.serviceId = kGeoAdsHost}

\* C1: for a valid https url IsAllowedHost returns true exactly when the host
\* is one of the seven listed literals; every other host, the near misses
\* search.brave.com.evil.com, search.brave.com.attacker.net and
\* api.search.brave.com among them, gets false.
C1_ExactlyTheListedHosts ==
  \A c \in AllowedCalls :
    (c.url.is_valid /\ c.url.scheme = "https")
      => (c.result = TRUE <=> c.url.host \in ListedHosts)

C1_Witness ==
  /\ Len(allowed_log) = 2
  /\ allowed_log[1].url = GURL(TRUE, "https", host_api, 1)
  /\ allowed_log[1].result = FALSE
  /\ allowed_log[2].url = GURL(TRUE, "https", Dotted(<<l_search, l_brave, l_com>>), 1)
  /\ allowed_log[2].result = TRUE

\* C2: IsAllowedHost returns false for every url whose scheme is not https,
\* a vetted host reached over http included.
C2_OnlyHttps ==
  \A c \in AllowedCalls : c.url.scheme # "https" => c.result = FALSE

C2_Witness ==
  \E c \in AllowedCalls :
    /\ c.url.is_valid /\ c.url.scheme = "http"
    /\ c.url.host \in ListedHosts
    /\ c.result = FALSE

\* C3: IsAllowedHost always returns a boolean, and false for every url that
\* is not valid, whatever its scheme and host.
C3_InvalidUrlRejected ==
  \A c \in AllowedCalls :
    /\ c.result \in BOOLEAN
    /\ ~c.url.is_valid => c.result = FALSE

C3_Witness ==
  \E c \in AllowedCalls :
    /\ ~c.url.is_valid /\ c.url.scheme = "https"
    /\ c.url.host \in ListedHosts
    /\ c.result = FALSE

\* C9: two calls with valid urls of the same scheme and host return the same
\* boolean, whatever their port, path, query and ref, and whatever changes of
\* the environment flag and resolveHost calls surround them.
C9_OnlySchemeAndHostDecide ==
  \A c, d \in AllowedCalls :
    (/\ c.url.is_valid /\ d.url.is_valid
     /\ c.url.scheme = d.url.scheme
     /\ c.url.host = d.url.host)
      => c.result = d.result

C9_Witness ==
  /\ Len(allowed_log) = 2
  /\ allowed_log[1].url = GURL(TRUE, "https", Dotted(<<l_search, l_brave, l_com>>), 2)
  /\ allowed_log[2].url = GURL(TRUE, "https", Dotted(<<l_search, l_brave, l_com>>), 3)
  /\ allowed_log[1].url.path = "/search" /\ allowed_log[1].url.query = "q=x"
  /\ allowed_log[1].url.port # allowed_log[2].url.port
  /\ allowed_log[1].url.path # allowed_log[2].url.path
  /\ allowed_log[1].url.query # allowed_log[2].url.query
  /\ allowed_log[1].url.ref # allowed_log[2].url.ref
  /\ allowed_log[1].result = TRUE /\ allowed_log[2].result = TRUE
  /\ environment_type = kStaging
  /\ host_log # <<>>

\* C10: the array of vetted hosts is strictly ascending in byte order, the
\* lookup finds each of the seven listed hosts in it, and no operation
\* changes it.
C10_SortedUniqueAndFixed ==
  /\ vetted_hosts = kVettedHosts
  /\ Len(vetted_hosts) = Cardinality(ListedHosts)
  /\ IsSortedAndUnique(vetted_hosts)
  /\ \A h \in ListedHosts : Contains(vetted_hosts, h)

C10_Witness ==
  /\ Len(allowed_log) = 2
  /\ allowed_log[1].url.host = vetted_hosts[1]
  /\ allowed_log[2].url.host = vetted_hosts[Len(vetted_hosts)]
  /\ allowed_log[1].result = TRUE /\ allowed_log[2].result = TRUE
  /\ Len(host_log) = MaxRepeat
  /\ environment_type = kProduction

\* C4: with the flag at Production, GetGeoUrlHost returns exactly
\* "https://geo.ads.brave.com", whatever the flag held before.
C4_ProductionHost ==
  environment_type = kProduction
    => \A c \in GeoCalls : c.returned = UrlHost(ProductionHostString)

C4_Witness ==
  /\ environment_type = kProduction
  /\ host_log # <<>>
  /\ host_log[Len(host_log)] =
       [serviceId |-> kGeoAdsHost, returned |-> UrlHost(ProductionHostString)]

\* C5: with the flag at Staging, GetGeoUrlHost returns exactly
\* "https://geo.ads.bravesoftware.com" and never the production host,
\* whatever the flag held before.
C5_StagingHost ==
  environment_type = kStaging
    => \A c \in GeoCalls :
         /\ c.returned = UrlHost(StagingHostString)
         /\ c.returned.host # ProductionHostString

C5_Witness ==
  /\ environment_type = kStaging
  /\ host_log # <<>>
  /\ host_log[Len(host_log)] =
       [serviceId |-> kGeoAdsHost, returned |-> UrlHost(StagingHostString)]

C7_UnsetFlagFails ==
  /\ environment_type = kUninitialized
       => \A c \in HostCalls : c.returned = ConfigurationError
  /\ \A c \in HostCalls :
       c.returned.kind = "host" => environment_type \in EnvironmentType

C7_Witness ==
  /\ environment_type = kUninitialized
  /\ host_log # <<>>
  /\ host_log[Len(host_log)] =
       [serviceId |-> kGeoAdsHost, returned |-> ConfigurationError]

\* C8: resolveHost with a service identifier the table does not hold fails
\* with ConfigurationError under every value of the flag, and never returns
\* a host string.
C8_UnknownServiceFails ==
  \A c \in HostCalls :
    c.serviceId # "geo-ads-host" => c.returned = ConfigurationError

C8_Witness ==
  /\ environment_type = kStaging
  /\ host_log # <<>>
  /\ host_log[Len(host_log)] =
       [serviceId |-> "unregistered-host", returned |-> ConfigurationError]

=============================================================================
